---- MODULE Spec2Model ----
(***************************************************************************)
(* Model of github.com/roscrl/order: a linter that checks that the keys of *)
(* a YAML or JSON document appear in the order in which a JSON schema      *)
(* declares its properties.                                                *)
(*                                                                         *)
(* Strings built by concatenation (error messages) are sequences of the    *)
(* concatenated pieces; a nil error is the empty sequence.                 *)
(***************************************************************************)
EXTENDS Integers, Sequences, FiniteSets, TLC

VARIABLES
    path,               \* Lint's yamlOrJsonPath
    docSource,          \* the document as written: the value its file spells out
    docFile,            \* the file at yamlOrJsonPath
    schemaSource,       \* the schema as written
    schemaFile,         \* the file at jsonSchemaPath
    content,            \* the bytes Lint read
    yamlRoot,           \* the parsed document
    schemaProperties,   \* the extracted property tree
    propertyNames,      \* the result of extractSchemaOrderFromJsonSchemaPath
    pc,                 \* the stage of the call
    stack,              \* the frames of validateNodeAgainstSchema
    ret,                \* the error the last nested validation returned
    result,             \* the error the call returned
    calls,              \* several calls of Lint: arguments, stage and result of each
    locals,             \* the memory the local variables of those calls are in
    history             \* the calls that returned, in the order they did

files == <<path, docSource, docFile, schemaSource, schemaFile>>

parsed == <<content, yamlRoot, schemaProperties, propertyNames>>

running == <<calls, locals, history>>

vars == <<files, parsed, pc, stack, ret, result, running>>

(***************************************************************************)
(* Bounds of the explored inputs.                                          *)
(***************************************************************************)
\* most keys of a flat document mapping
MaxKeys == 3
\* most properties of a flat schema level
MaxProps == 3
\* most keys, over all nesting levels, of a nested document
MaxDocKeys == 4
\* most properties, over all nesting levels, of a nested schema
MaxSchemaProps == 4
\* most keys of a document level that mixes the value kinds
MaxKindKeys == 2
\* most properties, over all nesting levels, of a schema text
MaxTextProps == 3
\* most values below the root of a JSON document
MaxJSONValues == 3
\* most values in the value of a skipped keyword
MaxSkipped == 4
\* most calls of Lint one caller makes
MaxRuns == 3
\* most calls of Lint at the same time
MaxCalls == 2

\* property names a schema may declare
Names == {"a", "b", "c"}
\* keys a document may use: the schema's names and one the schema never has
DocKeys == Names \cup {"x"}
\* names and keys of the nested inputs
NestedOrder == <<"a", "b">>
NestedNames == {NestedOrder[n] : n \in 1..Len(NestedOrder)}

nil == <<>>

(***************************************************************************)
(* yaml.Node and SchemaProperty                                            *)
(***************************************************************************)
Node(kind, value, items) == [Kind |-> kind, Value |-> value, Content |-> items]

ScalarNode(v) == Node("ScalarNode", v, <<>>)

SequenceNode(items) == Node("SequenceNode", "", items)

MappingNode(items) == Node("MappingNode", "", items)

DocumentNode(items) == Node("DocumentNode", "", items)

\* the zero yaml.Node
ZeroNode == Node("", "", <<>>)

SchemaProperty(name, properties) == [Name |-> name, Properties |-> properties]

\* the mapping node whose entries are the <<key, value node>> pairs, in order
MappingOf(pairs) ==
    MappingNode([n \in 1..(2 * Len(pairs)) |->
        IF n % 2 = 1 THEN ScalarNode(pairs[(n + 1) \div 2][1])
                     ELSE pairs[n \div 2][2]])

(***************************************************************************)
(* JSON text. A file is the sequence of the tokens json.Decoder.Token      *)
(* yields for it: the four delimiters and the scalars; the decoder itself  *)
(* consumes white space, commas and colons.                                *)
(***************************************************************************)
Delim(c) == [t |-> "delim", v |-> c]
Str(v) == [t |-> "string", v |-> v]
Num(v) == [t |-> "number", v |-> v]
Bool(v) == [t |-> "bool", v |-> v]
Null == [t |-> "null", v |-> "null"]
NoToken == [t |-> "", v |-> ""]

\* a JSON value as written: an object lists its members, an array its items
Scalar(tok) == [type |-> "scalar", tok |-> tok, items |-> <<>>]
Object(members) == [type |-> "object", tok |-> NoToken, items |-> members]
Array(items) == [type |-> "array", tok |-> NoToken, items |-> items]
Member(key, value) == [key |-> key, value |-> value]
NoValue == [type |-> "", tok |-> NoToken, items |-> <<>>]

\* the concatenation of a sequence of sequences
RECURSIVE Flatten(_)
Flatten(seqs) == IF seqs = <<>> THEN <<>> ELSE Head(seqs) \o Flatten(Tail(seqs))

\* the text of a value: its tokens in the order in which it is written
RECURSIVE Text(_)
Text(value) ==
    CASE value.type = "scalar" -> <<value.tok>>
      [] value.type = "object" ->
            <<Delim("{")>>
            \o Flatten([n \in DOMAIN value.items |->
                    <<Str(value.items[n].key)>> \o Text(value.items[n].value)])
            \o <<Delim("}")>>
      [] value.type = "array" ->
            <<Delim("[")>>
            \o Flatten([n \in DOMAIN value.items |-> Text(value.items[n])])
            \o <<Delim("]")>>
      [] OTHER -> <<>>

File(data) == [exists |-> TRUE, data |-> data]
NoFile == [exists |-> FALSE, data |-> <<>>]

\* encoding/json's Decoder: where it stands after the tokens it has returned.
\* One entry per open delimiter: "key" in an object before a key or the closing
\* brace, "value" in an object after a key, "array" in an array.
ValueDone(ctx) ==
    IF ctx # <<>> /\ ctx[Len(ctx)] = "value" THEN [ctx EXCEPT ![Len(ctx)] = "key"] ELSE ctx

DecoderStep(ctx, tok) ==
    CASE tok = Delim("{") -> Append(ctx, "key")
      [] tok = Delim("[") -> Append(ctx, "array")
      [] tok \in {Delim("}"), Delim("]")} -> ValueDone(SubSeq(ctx, 1, Len(ctx) - 1))
      [] tok.t = "string" /\ ctx # <<>> /\ ctx[Len(ctx)] = "key" ->
            [ctx EXCEPT ![Len(ctx)] = "value"]
      [] OTHER -> ValueDone(ctx)

\* the tokens the decoder returns rather than a syntax error
DecoderAccepts(ctx, tok) ==
    CASE tok = Delim("}") -> ctx # <<>> /\ ctx[Len(ctx)] = "key"
      [] tok = Delim("]") -> ctx # <<>> /\ ctx[Len(ctx)] = "array"
      [] tok.t = "string" -> TRUE
      [] OTHER -> ctx = <<>> \/ ctx[Len(ctx)] # "key"

\* json.NewDecoder
NewDecoder == [pos |-> 1, ctx |-> <<>>]

\* decoder.Token(): the next token, or the error of the end of the input or of
\* a token that cannot stand where it does
Token(toks, dec) ==
    IF dec.pos > Len(toks)
    THEN [tok |-> NoToken, err |-> <<"EOF">>, dec |-> dec]
    ELSE IF ~DecoderAccepts(dec.ctx, toks[dec.pos])
    THEN [tok |-> NoToken, err |-> <<"invalid character">>, dec |-> dec]
    ELSE [tok |-> toks[dec.pos], err |-> nil,
          dec |-> [pos |-> dec.pos + 1, ctx |-> DecoderStep(dec.ctx, toks[dec.pos])]]

(***************************************************************************)
(* parseJSONSchema, order.go:165-316                                       *)
(***************************************************************************)
\* order.go:285-296 and 299-310: read on until the delimiter that opened the
\* value is closed, counting that kind of delimiter only
RECURSIVE skipUntilClosed(_, _, _, _, _)
skipUntilClosed(toks, dec, open, close, depth) ==
    IF depth = 0 THEN [dec |-> dec, err |-> nil]
    ELSE LET t == Token(toks, dec) IN
         IF t.err # nil THEN [dec |-> t.dec, err |-> t.err]
         ELSE skipUntilClosed(toks, t.dec, open, close,
                IF t.tok = Delim(open) THEN depth + 1
                ELSE IF t.tok = Delim(close) THEN depth - 1
                ELSE depth)

\* a skip that takes the bracket that opens an array for a whole value
skipJSONValueObjectsOnly(toks, dec) ==
    LET t == Token(toks, dec) IN
    IF t.err # nil THEN [dec |-> t.dec, err |-> t.err]
    ELSE IF t.tok = Delim("{") THEN skipUntilClosed(toks, t.dec, "{", "}", 1)
    ELSE [dec |-> t.dec, err |-> nil]

\* order.go:276-316
skipJSONValue(toks, dec) ==
    LET t == Token(toks, dec) IN
    IF t.err # nil THEN [dec |-> t.dec, err |-> t.err]
    ELSE IF t.tok = Delim("{") THEN skipUntilClosed(toks, t.dec, "{", "}", 1)
    ELSE IF t.tok = Delim("[") THEN skipUntilClosed(toks, t.dec, "[", "]", 1)
    ELSE [dec |-> t.dec, err |-> nil]

Failed(dec, err) == [properties |-> <<>>, dec |-> dec, err |-> err]

RECURSIVE parsePropertiesObject(_, _)
RECURSIVE propertiesLoop(_, _, _)
RECURSIVE propertyLoop(_, _, _)

\* order.go:255-260: the nested "properties" object has been parsed
nestedProperties(toks, nested) ==
    IF nested.err # nil THEN Failed(nested.dec, nested.err)
    ELSE propertyLoop(toks, nested.dec, nested.properties)

\* order.go:261-266: the value of another keyword has been skipped
skippedKeyword(toks, children, skipped) ==
    IF skipped.err # nil THEN Failed(skipped.dec, skipped.err)
    ELSE propertyLoop(toks, skipped.dec, children)

\* order.go:241-267: the members of one property's schema fragment; the
\* result's properties are the children of the property
propertyLoop(toks, dec, children) ==
    LET t == Token(toks, dec) IN
    IF t.err # nil THEN Failed(t.dec, t.err)
    ELSE IF t.tok = Delim("}") THEN [properties |-> children, dec |-> t.dec, err |-> nil]
    ELSE IF t.tok = Str("properties")
    THEN nestedProperties(toks, parsePropertiesObject(toks, t.dec))
    ELSE skippedKeyword(toks, children, skipJSONValue(toks, t.dec))

\* a list that grows at the front
prependProperty(properties, name, children) ==
    <<SchemaProperty(name, children)>> \o properties

\* order.go:229-232 and 269
appendProperty(properties, name, children) ==
    Append(properties, SchemaProperty(name, children))

\* order.go:241-269: the fragment of the property has been read
propertyRead(toks, properties, name, property) ==
    IF property.err # nil THEN Failed(property.dec, property.err)
    ELSE propertiesLoop(toks, property.dec, appendProperty(properties, name, property.properties))

\* a parser that records a property whose fragment is a scalar as a leaf
propertyObjectOrLeaf(toks, properties, name, open) ==
    IF open.err # nil THEN Failed(open.dec, open.err)
    ELSE IF open.tok.t # "delim"
    THEN propertiesLoop(toks, open.dec, appendProperty(properties, name, <<>>))
    ELSE IF open.tok # Delim("{") THEN Failed(open.dec, <<"expected property object">>)
    ELSE propertyRead(toks, properties, name, propertyLoop(toks, open.dec, <<>>))

\* order.go:234-239: the token that opens the fragment of the property
propertyObject(toks, properties, name, open) ==
    IF open.err # nil THEN Failed(open.dec, open.err)
    ELSE IF open.tok # Delim("{") THEN Failed(open.dec, <<"expected property object">>)
    ELSE propertyRead(toks, properties, name, propertyLoop(toks, open.dec, <<>>))

\* order.go:211-270
propertiesLoop(toks, dec, properties) ==
    LET t == Token(toks, dec) IN
    IF t.err # nil THEN Failed(t.dec, t.err)
    ELSE IF t.tok = Delim("}") THEN [properties |-> properties, dec |-> t.dec, err |-> nil]
    ELSE IF t.tok.t # "string" THEN Failed(t.dec, <<"expected property name string">>)
    ELSE propertyObject(toks, properties, t.tok.v, Token(toks, t.dec))

\* the value that is no object is passed over
passedOver(skipped) == [properties |-> <<>>, dec |-> skipped.dec, err |-> skipped.err]

\* a parser that takes a value that is no object for an object without members
parsePropertiesObjectLenient(toks, dec) ==
    LET t == Token(toks, dec) IN
    IF t.err # nil THEN Failed(t.dec, t.err)
    ELSE IF t.tok # Delim("{") THEN passedOver(skipJSONValue(toks, dec))
    ELSE propertiesLoop(toks, t.dec, <<>>)

\* order.go:201-273
parsePropertiesObject(toks, dec) ==
    LET t == Token(toks, dec) IN
    IF t.err # nil THEN Failed(t.dec, t.err)
    ELSE IF t.tok # Delim("{") THEN Failed(t.dec, <<"expected properties object">>)
    ELSE propertiesLoop(toks, t.dec, <<>>)

RECURSIVE findPropertiesOptional(_, _)

skippedOptional(toks, skipped) ==
    IF skipped.err # nil THEN Failed(skipped.dec, skipped.err)
    ELSE findPropertiesOptional(toks, skipped.dec)

\* a scan that takes a schema without "properties" for one without properties
findPropertiesOptional(toks, dec) ==
    LET t == Token(toks, dec) IN
    IF t.err # nil THEN Failed(t.dec, t.err)
    ELSE IF t.tok = Delim("}") THEN [properties |-> <<>>, dec |-> t.dec, err |-> nil]
    ELSE IF t.tok = Str("properties") THEN parsePropertiesObject(toks, t.dec)
    ELSE skippedOptional(toks, skipJSONValue(toks, t.dec))

RECURSIVE findProperties(_, _)

\* order.go:193-196: the value of another member has been skipped
skippedMember(toks, skipped) ==
    IF skipped.err # nil THEN Failed(skipped.dec, skipped.err)
    ELSE findProperties(toks, skipped.dec)

\* order.go:175-197
findProperties(toks, dec) ==
    LET t == Token(toks, dec) IN
    IF t.err # nil THEN Failed(t.dec, t.err)
    ELSE IF t.tok = Delim("}") THEN Failed(t.dec, <<"properties not found">>)
    ELSE IF t.tok = Str("properties") THEN parsePropertiesObject(toks, t.dec)
    ELSE skippedMember(toks, skipJSONValue(toks, t.dec))

\* order.go:165-198
parseJSONSchema(toks) ==
    LET t == Token(toks, NewDecoder) IN
    IF t.err # nil THEN Failed(t.dec, t.err)
    ELSE IF t.tok # Delim("{") THEN Failed(t.dec, <<"expected JSON object">>)
    ELSE findProperties(toks, t.dec)

\* order.go:154-162
extractNestedSchemaOrder(file) ==
    IF ~file.exists THEN Failed(NewDecoder, <<"open: no such file or directory">>)
    ELSE parseJSONSchema(file.data)

\* order.go:143-149: the names of the root properties
namesOf(got) ==
    IF got.err # nil THEN [names |-> <<>>, err |-> got.err]
    ELSE [names |-> [n \in DOMAIN got.properties |-> got.properties[n].Name], err |-> nil]

\* order.go:137-150
extractSchemaOrderFromJsonSchemaPath(file) == namesOf(extractNestedSchemaOrder(file))

(***************************************************************************)
(* parseJSONWithOrder, order.go:318-579                                    *)
(***************************************************************************)
\* number literals of the explored documents
NumberLiterals == {"1.5", "1.0"}

\* fmt.Sprintf("%g", v) of the float64 a number literal decodes to
FormatG(literal) == IF literal = "1.0" THEN "1" ELSE literal

NodeFailed(dec, err) == [node |-> ZeroNode, dec |-> dec, err |-> err]

\* order.go:385
appendEntry(items, keyNode, valueNode) == items \o <<keyNode, valueNode>>

\* order.go:458
appendValueEntry(items, keyNode, valueNode) == items \o <<keyNode, valueNode>>

\* an object inside an array that grows at the front
appendArrayEntryFront(items, keyNode, valueNode) == <<keyNode, valueNode>> \o items

\* order.go:554
appendArrayEntry(items, keyNode, valueNode) == items \o <<keyNode, valueNode>>

\* order.go:573-575
appendElement(items, valueNode) == Append(items, valueNode)

RECURSIVE parseJSONValue(_, _)
RECURSIVE parseJSONArray(_, _)
RECURSIVE objectLoop(_, _, _)
RECURSIVE valueObjectLoop(_, _, _)
RECURSIVE arrayObjectLoop(_, _, _)
RECURSIVE arrayLoop(_, _, _)

\* order.go:379-385: the value of a key has been parsed
objectEntry(toks, items, keyNode, value) ==
    IF value.err # nil THEN NodeFailed(value.dec, value.err)
    ELSE objectLoop(toks, value.dec, appendEntry(items, keyNode, value.node))

\* order.go:354-388
objectLoop(toks, dec, items) ==
    LET t == Token(toks, dec) IN
    IF t.err # nil THEN NodeFailed(t.dec, t.err)
    ELSE IF t.tok = Delim("}") THEN [node |-> MappingNode(items), dec |-> t.dec, err |-> nil]
    ELSE IF t.tok.t # "string" THEN NodeFailed(t.dec, <<"expected string key in JSON object">>)
    ELSE objectEntry(toks, items, ScalarNode(t.tok.v), parseJSONValue(toks, t.dec))

\* order.go:338-389
parseJSONObject(toks, dec) ==
    LET t == Token(toks, dec) IN
    IF t.err # nil THEN NodeFailed(t.dec, t.err)
    ELSE IF t.tok # Delim("{") THEN NodeFailed(t.dec, <<"expected JSON object">>)
    ELSE objectLoop(toks, t.dec, <<>>)

\* order.go:452-458: the value of a key has been parsed
valueObjectEntry(toks, items, keyNode, value) ==
    IF value.err # nil THEN NodeFailed(value.dec, value.err)
    ELSE valueObjectLoop(toks, value.dec, appendValueEntry(items, keyNode, value.node))

\* order.go:427-461
valueObjectLoop(toks, dec, items) ==
    LET t == Token(toks, dec) IN
    IF t.err # nil THEN NodeFailed(t.dec, t.err)
    ELSE IF t.tok = Delim("}") THEN [node |-> MappingNode(items), dec |-> t.dec, err |-> nil]
    ELSE IF t.tok.t # "string" THEN NodeFailed(t.dec, <<"expected string key in JSON object">>)
    ELSE valueObjectEntry(toks, items, ScalarNode(t.tok.v), parseJSONValue(toks, t.dec))

\* order.go:398-467: the switch on the token read
valueOf(toks, t) ==
    CASE t.tok.t = "string" -> [node |-> ScalarNode(t.tok.v), dec |-> t.dec, err |-> nil]
      [] t.tok.t = "number" -> [node |-> ScalarNode(FormatG(t.tok.v)), dec |-> t.dec, err |-> nil]
      [] t.tok.t = "bool" -> [node |-> ScalarNode(t.tok.v), dec |-> t.dec, err |-> nil]
      [] t.tok.t = "null" -> [node |-> ScalarNode("null"), dec |-> t.dec, err |-> nil]
      [] t.tok = Delim("{") -> valueObjectLoop(toks, t.dec, <<>>)
      [] t.tok = Delim("[") -> parseJSONArray(toks, t.dec)
      [] OTHER -> NodeFailed(t.dec, <<"unexpected JSON value">>)

\* order.go:392-468
parseJSONValue(toks, dec) ==
    LET t == Token(toks, dec) IN
    IF t.err # nil THEN NodeFailed(t.dec, t.err)
    ELSE valueOf(toks, t)

\* order.go:548-554: the value of a key has been parsed
arrayObjectEntry(toks, items, keyNode, value) ==
    IF value.err # nil THEN NodeFailed(value.dec, value.err)
    ELSE arrayObjectLoop(toks, value.dec, appendArrayEntry(items, keyNode, value.node))

\* order.go:523-557
arrayObjectLoop(toks, dec, items) ==
    LET t == Token(toks, dec) IN
    IF t.err # nil THEN NodeFailed(t.dec, t.err)
    ELSE IF t.tok = Delim("}") THEN [node |-> MappingNode(items), dec |-> t.dec, err |-> nil]
    ELSE IF t.tok.t # "string" THEN NodeFailed(t.dec, <<"expected string key in JSON object">>)
    ELSE arrayObjectEntry(toks, items, ScalarNode(t.tok.v), parseJSONValue(toks, t.dec))

\* order.go:492-570: the switch on the token read
elementOf(toks, t) ==
    CASE t.tok.t = "string" -> [node |-> ScalarNode(t.tok.v), dec |-> t.dec, err |-> nil]
      [] t.tok.t = "number" -> [node |-> ScalarNode(FormatG(t.tok.v)), dec |-> t.dec, err |-> nil]
      [] t.tok.t = "bool" -> [node |-> ScalarNode(t.tok.v), dec |-> t.dec, err |-> nil]
      [] t.tok.t = "null" -> [node |-> ScalarNode("null"), dec |-> t.dec, err |-> nil]
      [] t.tok = Delim("{") -> arrayObjectLoop(toks, t.dec, <<>>)
      [] t.tok = Delim("[") -> parseJSONArray(toks, t.dec)
      [] OTHER -> NodeFailed(t.dec, <<"unexpected JSON delimiter">>)

\* order.go:573-575: an element has been parsed
arrayElement(toks, items, element) ==
    IF element.err # nil THEN NodeFailed(element.dec, element.err)
    ELSE arrayLoop(toks, element.dec, appendElement(items, element.node))

\* order.go:478-578
arrayLoop(toks, dec, items) ==
    LET t == Token(toks, dec) IN
    IF t.err # nil THEN NodeFailed(t.dec, t.err)
    ELSE IF t.tok = Delim("]") THEN [node |-> SequenceNode(items), dec |-> t.dec, err |-> nil]
    ELSE arrayElement(toks, items, elementOf(toks, t))

\* order.go:471-579
parseJSONArray(toks, dec) == arrayLoop(toks, dec, <<>>)

\* order.go:328-334: the document around the object parsed
documentOf(obj) ==
    IF obj.err # nil THEN [node |-> ZeroNode, err |-> obj.err]
    ELSE [node |-> DocumentNode(<<obj.node>>), err |-> nil]

\* order.go:319-335
parseJSONWithOrder(toks) == documentOf(parseJSONObject(toks, NewDecoder))

(***************************************************************************)
(* Lint up to the validation, order.go:21-62                               *)
(***************************************************************************)
\* a test that finds the extension anywhere in the path
HasSuffixAnywhere(p, suffix) == \E n \in 1..Len(p) : p[n] = suffix

\* a path is its pieces, the extension the last of them
HasSuffix(p, suffix) == p # <<>> /\ p[Len(p)] = suffix

RECURSIVE yamlNode(_, _)
RECURSIVE yamlMappingLoop(_, _, _)
RECURSIVE yamlSequenceLoop(_, _, _)

YamlFailed(pos, err) == [node |-> ZeroNode, pos |-> pos, err |-> err]

\* a pair of a flow mapping: its value has been read
yamlPair(toks, items, key, value) ==
    IF value.err # nil THEN value
    ELSE yamlMappingLoop(toks, value.pos, items \o <<key.node, value.node>>)

\* a pair of a flow mapping: its key has been read
yamlKey(toks, items, key) ==
    IF key.err # nil THEN key
    ELSE yamlPair(toks, items, key, yamlNode(toks, key.pos))

\* a flow mapping of the text: pairs of nodes up to the closing brace
yamlMappingLoop(toks, pos, items) ==
    IF pos > Len(toks) THEN YamlFailed(pos, <<"yaml: did not find expected ',' or '}'">>)
    ELSE IF toks[pos] = Delim("}") THEN [node |-> MappingNode(items), pos |-> pos + 1, err |-> nil]
    ELSE yamlKey(toks, items, yamlNode(toks, pos))

\* an element of a flow sequence has been read
yamlElement(toks, items, element) ==
    IF element.err # nil THEN element
    ELSE yamlSequenceLoop(toks, element.pos, Append(items, element.node))

\* a flow sequence of the text: nodes up to the closing bracket
yamlSequenceLoop(toks, pos, items) ==
    IF pos > Len(toks) THEN YamlFailed(pos, <<"yaml: did not find expected ',' or ']'">>)
    ELSE IF toks[pos] = Delim("]")
    THEN [node |-> SequenceNode(items), pos |-> pos + 1, err |-> nil]
    ELSE yamlElement(toks, items, yamlNode(toks, pos))

\* a node of the text; a scalar keeps the text it is written with
yamlNode(toks, pos) ==
    IF pos > Len(toks) THEN YamlFailed(pos, <<"yaml: did not find expected node content">>)
    ELSE CASE toks[pos] = Delim("{") -> yamlMappingLoop(toks, pos + 1, <<>>)
           [] toks[pos] = Delim("[") -> yamlSequenceLoop(toks, pos + 1, <<>>)
           [] toks[pos].t = "delim" ->
                YamlFailed(pos, <<"yaml: did not find expected node content">>)
           [] OTHER -> [node |-> ScalarNode(toks[pos].v), pos |-> pos + 1, err |-> nil]

\* the document of the text, which ends with its root
yamlDocument(toks, root) ==
    IF root.err # nil THEN [node |-> ZeroNode, err |-> root.err]
    ELSE IF root.pos <= Len(toks)
    THEN [node |-> ZeroNode, err |-> <<"yaml: did not find expected <document start>">>]
    ELSE [node |-> DocumentNode(<<root.node>>), err |-> nil]

\* yaml.Unmarshal(content, &yamlRoot), order.go:29: a text without a document
\* leaves the node as it is
yamlUnmarshal(toks, out) ==
    IF toks = <<>> THEN [node |-> out, err |-> nil]
    ELSE yamlDocument(toks, yamlNode(toks, 1))

\* a return of Lint before the validation
LintReturn(err) ==
    /\ result' = err
    /\ pc' = "done"

\* order.go:22-25
ReadFile ==
    /\ pc = "read"
    /\ IF ~docFile.exists
       THEN /\ LintReturn(<<"open: no such file or directory">>)
            /\ UNCHANGED content
       ELSE /\ content' = docFile.data
            /\ pc' = "decode"
            /\ UNCHANGED result
    /\ UNCHANGED <<running, files, yamlRoot, schemaProperties, propertyNames, stack, ret>>

\* order.go:28-32
DecodeYAML ==
    /\ pc = "decode"
    /\ HasSuffix(path, ".yaml") \/ HasSuffix(path, ".yml")
    /\ LET got == yamlUnmarshal(content, yamlRoot) IN
       IF got.err # nil
       THEN /\ LintReturn(got.err)
            /\ UNCHANGED yamlRoot
       ELSE /\ yamlRoot' = got.node
            /\ pc' = "schema"
            /\ UNCHANGED result
    /\ UNCHANGED <<running, files, content, schemaProperties, propertyNames, stack, ret>>

\* order.go:33-41
DecodeJSON ==
    /\ pc = "decode"
    /\ ~(HasSuffix(path, ".yaml") \/ HasSuffix(path, ".yml"))
    /\ HasSuffix(path, ".json")
    /\ LET got == parseJSONWithOrder(content) IN
       IF got.err # nil
       THEN /\ LintReturn(got.err)
            /\ UNCHANGED yamlRoot
       ELSE /\ yamlRoot' = got.node
            /\ pc' = "schema"
            /\ UNCHANGED result
    /\ UNCHANGED <<running, files, content, schemaProperties, propertyNames, stack, ret>>

\* order.go:42-44
UnsupportedExtension ==
    /\ pc = "decode"
    /\ ~(HasSuffix(path, ".yaml") \/ HasSuffix(path, ".yml"))
    /\ ~HasSuffix(path, ".json")
    /\ LintReturn(<<"file must have .yaml, .yml, or .json extension">>)
    /\ UNCHANGED <<running, files, parsed, stack, ret>>

\* order.go:47-50
ExtractSchema ==
    /\ pc = "schema"
    /\ LET got == extractNestedSchemaOrder(schemaFile) IN
       IF got.err # nil
       THEN /\ LintReturn(got.err)
            /\ UNCHANGED schemaProperties
       ELSE /\ schemaProperties' = got.properties
            /\ pc' = "root"
            /\ UNCHANGED result
    /\ UNCHANGED <<running, files, content, yamlRoot, propertyNames, stack, ret>>

(***************************************************************************)
(* validateNodeAgainstSchema, order.go:65-124                              *)
(***************************************************************************)
\* order.go:70-74: later declarations of a name overwrite earlier ones
propertyPositions(props) ==
    [name \in {props[n].Name : n \in 1..Len(props)} |->
        (CHOOSE n \in 1..Len(props) :
            /\ props[n].Name = name
            /\ \A m \in 1..Len(props) : props[m].Name = name => m <= n) - 1]

\* order.go:76-84
keysOf(n) == [k \in 1..(Len(n.Content) \div 2) |-> n.Content[2 * k - 1].Value]

\* a wrong comparison: the pair is reported when it is in schema order
outOfOrderFlipped(positions, keyI, keyJ) ==
    /\ keyI \in DOMAIN positions
    /\ keyJ \in DOMAIN positions
    /\ positions[keyI] < positions[keyJ]

\* a lookup that forgets the presence flags: a key the schema lacks reads as
\* position 0, the zero value of a missing map entry
outOfOrderNoPresence(positions, keyI, keyJ) ==
    LET pos(key) == IF key \in DOMAIN positions THEN positions[key] ELSE 0 IN
    pos(keyI) > pos(keyJ)

\* order.go:97
outOfOrder(positions, keyI, keyJ) ==
    /\ keyI \in DOMAIN positions
    /\ keyJ \in DOMAIN positions
    /\ positions[keyI] > positions[keyJ]

\* a scan that compares the first key only with the keys after it
RECURSIVE scanFromFirstKey(_, _, _, _)
scanFromFirstKey(keys, positions, i, j) ==
    IF i >= 1 \/ j >= Len(keys) THEN <<>>
    ELSE IF outOfOrder(positions, keys[i + 1], keys[j + 1]) THEN <<i, j>>
    ELSE scanFromFirstKey(keys, positions, i, j + 1)

\* order.go:86-103: the pair <<i, j>> (0-based) at which the scan returns, or
\* <<>> when both loops run to completion
RECURSIVE scanFrom(_, _, _, _)
scanFrom(keys, positions, i, j) ==
    IF i >= Len(keys) THEN <<>>
    ELSE IF j >= Len(keys) THEN scanFrom(keys, positions, i + 1, i + 2)
    ELSE IF outOfOrder(positions, keys[i + 1], keys[j + 1]) THEN <<i, j>>
    ELSE scanFrom(keys, positions, i, j + 1)

firstViolation(keys, props) == scanFrom(keys, propertyPositions(props), 0, 1)

\* a message that names the two keys the other way round
orderErrorSwapped(keyI, keyJ) ==
    <<"properties out of order: '", keyJ, "' should come after '", keyI,
      "' according to the schema">>

\* order.go:98-100
orderError(keyI, keyJ) ==
    <<"properties out of order: '", keyI, "' should come after '", keyJ,
      "' according to the schema">>

\* a wrapper that adds the enclosing key after the prefixes already there
wrapErrorInnerFirst(key, err) ==
    SubSeq(err, 1, Len(err) - 5) \o <<"in property '", key, "': ">>
        \o SubSeq(err, Len(err) - 4, Len(err))

\* order.go:119
wrapError(key, err) == <<"in property '", key, "': ">> \o err

\* order.go:127-134: 0 when no property has the name
findPropertyByName(properties, name) ==
    IF \E n \in 1..Len(properties) : properties[n].Name = name
    THEN CHOOSE n \in 1..Len(properties) :
            /\ properties[n].Name = name
            /\ \A m \in 1..(n - 1) : properties[m].Name # name
    ELSE 0

\* a test that forgets the kind of the value
skipsPropertyAnyKind(props, keyNode, valueNode) ==
    LET p == findPropertyByName(props, keyNode.Value) IN
    IF p = 0 THEN TRUE
    ELSE Len(props[p].Properties) = 0

\* order.go:112
skipsProperty(props, keyNode, valueNode) ==
    LET p == findPropertyByName(props, keyNode.Value) IN
    IF p = 0 THEN TRUE
    ELSE Len(props[p].Properties) = 0 \/ valueNode.Kind # "MappingNode"

\* order.go:55
docNode == yamlRoot.Content[1]

\* a frame that starts at the visit of the keys, the check of the level
\* left out
FrameWithoutCheck(n, props) == [node |-> n, schemaProperties |-> props, at |-> "loop", i |-> 1]

Frame(n, props) == [node |-> n, schemaProperties |-> props, at |-> "check", i |-> 1]

Top == stack[Len(stack)]

SetTop(f) == [stack EXCEPT ![Len(stack)] = f]

\* a return of validateNodeAgainstSchema: to the calling frame, or to Lint
\* (order.go:57), whose own result it becomes
Return(err) ==
    IF Len(stack) = 1
    THEN /\ stack' = <<>>
         /\ result' = err
         /\ pc' = "done"
         /\ UNCHANGED ret
    ELSE /\ stack' = SubSeq(stack, 1, Len(stack) - 1)
         /\ ret' = err
         /\ UNCHANGED <<result, pc>>

\* order.go:66-103
CheckOrder ==
    /\ pc = "validate" /\ stack # <<>> /\ Top.at = "check"
    /\ LET keys == keysOf(Top.node)
           v == firstViolation(keys, Top.schemaProperties) IN
       IF Top.node.Kind # "MappingNode" THEN Return(nil)
       ELSE IF v # <<>> THEN Return(orderError(keys[v[1] + 1], keys[v[2] + 1]))
       ELSE /\ stack' = SetTop([Top EXCEPT !.at = "loop", !.i = 1])
            /\ UNCHANGED <<pc, ret, result>>
    /\ UNCHANGED <<running, files, parsed>>

\* order.go:106-114: continue
SkipProperty ==
    /\ pc = "validate" /\ stack # <<>> /\ Top.at = "loop"
    /\ Top.i <= Len(Top.node.Content)
    /\ skipsProperty(Top.schemaProperties, Top.node.Content[Top.i], Top.node.Content[Top.i + 1])
    /\ stack' = SetTop([Top EXCEPT !.i = Top.i + 2])
    /\ UNCHANGED <<pc, ret, result, running, files, parsed>>

\* order.go:117: the recursive call
Descend ==
    /\ pc = "validate" /\ stack # <<>> /\ Top.at = "loop"
    /\ Top.i <= Len(Top.node.Content)
    /\ ~skipsProperty(Top.schemaProperties, Top.node.Content[Top.i], Top.node.Content[Top.i + 1])
    /\ LET p == findPropertyByName(Top.schemaProperties, Top.node.Content[Top.i].Value) IN
       stack' = Append(SetTop([Top EXCEPT !.at = "call"]),
                       Frame(Top.node.Content[Top.i + 1], Top.schemaProperties[p].Properties))
    /\ UNCHANGED <<pc, ret, result, running, files, parsed>>

\* order.go:118-120: the nested call reported a violation
PropagateError ==
    /\ pc = "validate" /\ stack # <<>> /\ Top.at = "call"
    /\ ret # nil
    /\ Return(wrapError(Top.node.Content[Top.i].Value, ret))
    /\ UNCHANGED <<running, files, parsed>>

\* order.go:118-121: the nested call passed
NextProperty ==
    /\ pc = "validate" /\ stack # <<>> /\ Top.at = "call"
    /\ ret = nil
    /\ stack' = SetTop([Top EXCEPT !.at = "loop", !.i = Top.i + 2])
    /\ UNCHANGED <<pc, ret, result, running, files, parsed>>

\* order.go:123
ReturnNil ==
    /\ pc = "validate" /\ stack # <<>> /\ Top.at = "loop"
    /\ Top.i > Len(Top.node.Content)
    /\ Return(nil)
    /\ UNCHANGED <<running, files, parsed>>

\* order.go:54-57: the root of the document is a mapping
StartValidation ==
    /\ pc = "root"
    /\ yamlRoot.Kind = "DocumentNode" /\ Len(yamlRoot.Content) > 0
    /\ docNode.Kind = "MappingNode"
    /\ stack' = <<Frame(docNode, schemaProperties)>>
    /\ pc' = "validate"
    /\ UNCHANGED <<running, files, parsed, ret, result>>

\* order.go:54-61: there is no document, or its root is no mapping
NothingToValidate ==
    /\ pc = "root"
    /\ ~(yamlRoot.Kind = "DocumentNode" /\ Len(yamlRoot.Content) > 0
         /\ docNode.Kind = "MappingNode")
    /\ LintReturn(nil)
    /\ UNCHANGED <<running, files, parsed, stack, ret>>

(***************************************************************************)
(* Lint and validateNodeAgainstSchema as the functions they are, and the   *)
(* stages of a call among several calls                                    *)
(***************************************************************************)
RECURSIVE validateNodeAgainstSchema(_, _)
RECURSIVE validateProperties(_, _, _)

\* order.go:117-121: the nested call has returned
nestedResult(node, props, i, err) ==
    IF err # nil THEN wrapError(node.Content[i].Value, err)
    ELSE validateProperties(node, props, i + 2)

\* order.go:117: the schema property of the key, whose children the nested
\* call is given
validateProperty(node, props, i, p) ==
    nestedResult(node, props, i, validateNodeAgainstSchema(node.Content[i + 1], props[p].Properties))

\* order.go:106-123
validateProperties(node, props, i) ==
    IF i > Len(node.Content) THEN nil
    ELSE IF skipsProperty(props, node.Content[i], node.Content[i + 1])
    THEN validateProperties(node, props, i + 2)
    ELSE validateProperty(node, props, i, findPropertyByName(props, node.Content[i].Value))

\* order.go:86-103: the pair found out of order, if any
violationOf(node, props, keys, v) ==
    IF v # <<>> THEN orderError(keys[v[1] + 1], keys[v[2] + 1])
    ELSE validateProperties(node, props, 1)

\* order.go:76-103
validateKeys(node, props, keys) == violationOf(node, props, keys, firstViolation(keys, props))

\* order.go:65-124
validateNodeAgainstSchema(node, props) ==
    IF node.Kind # "MappingNode" THEN nil
    ELSE validateKeys(node, props, keysOf(node))

\* order.go:28-44
decode(p, toks, out) ==
    IF HasSuffix(p, ".yaml") \/ HasSuffix(p, ".yml") THEN yamlUnmarshal(toks, out)
    ELSE IF HasSuffix(p, ".json") THEN parseJSONWithOrder(toks)
    ELSE [node |-> out, err |-> <<"file must have .yaml, .yml, or .json extension">>]

\* order.go:54-61
validateRoot(root, props) ==
    IF root.Kind = "DocumentNode" /\ Len(root.Content) > 0
    THEN (IF root.Content[1].Kind = "MappingNode"
          THEN validateNodeAgainstSchema(root.Content[1], props)
          ELSE nil)
    ELSE nil

\* order.go:47-61
lintExtracted(root, got) ==
    IF got.err # nil THEN got.err ELSE validateRoot(root, got.properties)

\* order.go:28-61
lintDecoded(decoded, schema) ==
    IF decoded.err # nil THEN decoded.err
    ELSE lintExtracted(decoded.node, extractNestedSchemaOrder(schema))

\* order.go:21-62
Lint(p, document, schema) ==
    IF ~document.exists THEN <<"open: no such file or directory">>
    ELSE lintDecoded(decode(p, document.data, ZeroNode), schema)

\* the arguments of a call, with the files they name
Arguments(p, document, schema) == [path |-> p, docFile |-> document, schemaFile |-> schema]

\* a call: its arguments, its stage, its result and the calls still to come
\* from its caller
Call(args, stage, err, left) == [args |-> args, pc |-> stage, result |-> err, left |-> left]

\* the local variables of a call: content, yamlRoot and schemaProperties
Locals(bytes, root, props) == [content |-> bytes, yamlRoot |-> root, schemaProperties |-> props]

\* one memory for the local variables of every call
sharedSlot(c) == 1

\* order.go:21-27: where the local variables of call c are, the frame of the
\* call
slot(c) == c

\* local variables that keep what the call before left in them
keptLocals(old) == old

\* order.go:22, 27 and 47: the variables a call declares
newLocals(old) == Locals(<<>>, ZeroNode, <<>>)

\* a return of call c
Finish(c, err) ==
    /\ calls' = [calls EXCEPT ![c].pc = "done", ![c].result = err]
    /\ history' = Append(history, [args |-> calls[c].args, result |-> err])

\* the call goes on to the next stage
Goto(c, stage) ==
    /\ calls' = [calls EXCEPT ![c].pc = stage]
    /\ UNCHANGED history

single == <<files, parsed, pc, stack, ret, result>>

\* order.go:21: call c is made
Begin(c, args) ==
    /\ calls[c].pc \in {"idle", "done"} /\ calls[c].left > 0
    /\ calls' = [calls EXCEPT ![c] = Call(args, "read", nil, calls[c].left - 1)]
    /\ locals' = [locals EXCEPT ![slot(c)] = newLocals(locals[slot(c)])]
    /\ UNCHANGED <<history, single>>

\* order.go:22-25
CallRead(c) ==
    /\ calls[c].pc = "read"
    /\ IF ~calls[c].args.docFile.exists
       THEN /\ Finish(c, <<"open: no such file or directory">>)
            /\ UNCHANGED locals
       ELSE /\ locals' = [locals EXCEPT ![slot(c)].content = calls[c].args.docFile.data]
            /\ Goto(c, "decode")
    /\ UNCHANGED single

\* order.go:27-44
CallDecode(c) ==
    /\ calls[c].pc = "decode"
    /\ LET decoded == decode(calls[c].args.path, locals[slot(c)].content, locals[slot(c)].yamlRoot) IN
       IF decoded.err # nil
       THEN /\ Finish(c, decoded.err)
            /\ UNCHANGED locals
       ELSE /\ locals' = [locals EXCEPT ![slot(c)].yamlRoot = decoded.node]
            /\ Goto(c, "schema")
    /\ UNCHANGED single

\* order.go:47-50
CallExtract(c) ==
    /\ calls[c].pc = "schema"
    /\ LET got == extractNestedSchemaOrder(calls[c].args.schemaFile) IN
       IF got.err # nil
       THEN /\ Finish(c, got.err)
            /\ UNCHANGED locals
       ELSE /\ locals' = [locals EXCEPT ![slot(c)].schemaProperties = got.properties]
            /\ Goto(c, "root")
    /\ UNCHANGED single

\* order.go:54-61
CallValidate(c) ==
    /\ calls[c].pc = "root"
    /\ Finish(c, validateRoot(locals[slot(c)].yamlRoot, locals[slot(c)].schemaProperties))
    /\ UNCHANGED <<locals, single>>

(***************************************************************************)
(* Inputs of the validator                                                 *)
(***************************************************************************)
SeqsUpTo(S, n) == UNION {[1..k -> S] : k \in 0..n}

\* a mapping whose keys are out of the order a, b
BadMapping == MappingOf(<<<<"b", ScalarNode("v")>>, <<"a", ScalarNode("v")>>>>)

\* a sequence whose elements are such mappings
BadSequence == SequenceNode(<<BadMapping>>)

\* flat inputs: up to MaxKeys keys, repeated or not, every value a scalar,
\* against up to MaxProps leaf properties, repeated or not
FlatDocs ==
    {MappingOf([n \in DOMAIN ks |-> <<ks[n], ScalarNode("v")>>]) : ks \in SeqsUpTo(DocKeys, MaxKeys)}

FlatSchemas ==
    {[n \in DOMAIN ns |-> SchemaProperty(ns[n], <<>>)] : ns \in SeqsUpTo(Names, MaxProps)}

\* inputs of every value kind: a level of up to MaxKindKeys keys whose values
\* are a scalar, a sequence or a mapping, against properties with or without
\* children
KindDocs ==
    {MappingOf(es) :
        es \in SeqsUpTo((NestedNames \cup {"x"}) \X {ScalarNode("v"), BadSequence, BadMapping},
                        MaxKindKeys)}

KindSchemas ==
    {[n \in DOMAIN ps |-> SchemaProperty(ps[n][1], ps[n][2])] :
        ps \in SeqsUpTo(NestedNames \X {<<>>, <<SchemaProperty("a", <<>>), SchemaProperty("b", <<>>)>>},
                        MaxKindKeys)}

\* nested inputs: the lists of <<key, value>> entries that hold n keys over all
\* their levels, the keys of a level distinct
RECURSIVE DocEntries(_)
DocEntries(n) ==
    IF n = 0 THEN {<<>>}
    ELSE UNION {UNION {
        {<<<<k, v>>>> \o rest :
            v \in (IF m = 0 THEN {ScalarNode("v")} ELSE {}) \cup {MappingOf(sub) : sub \in DocEntries(m)},
            rest \in {r \in DocEntries(n - 1 - m) : \A e \in 1..Len(r) : r[e][1] # k}} :
        k \in NestedNames} : m \in 0..(n - 1)}

NestedDocs == {MappingOf(es) : es \in UNION {DocEntries(n) : n \in 0..MaxDocKeys}}

\* the schema levels that hold n properties over all their levels, the names of
\* a level distinct and in the order of NestedOrder
Rank(name) == CHOOSE n \in 1..Len(NestedOrder) : NestedOrder[n] = name

RECURSIVE SchemaLevels(_)
SchemaLevels(n) ==
    IF n = 0 THEN {<<>>}
    ELSE UNION {UNION {
        {<<SchemaProperty(name, sub)>> \o rest :
            sub \in SchemaLevels(m),
            rest \in {r \in SchemaLevels(n - 1 - m) : r = <<>> \/ Rank(name) < Rank(r[1].Name)}} :
        name \in NestedNames} : m \in 0..(n - 1)}

NestedSchemas == UNION {SchemaLevels(n) : n \in 0..MaxSchemaProps}

ValidateInputs ==
    (FlatDocs \X FlatSchemas) \cup (KindDocs \X KindSchemas) \cup (NestedDocs \X NestedSchemas)

InitValidate ==
    /\ \E input \in ValidateInputs :
        /\ yamlRoot = DocumentNode(<<input[1]>>)
        /\ schemaProperties = input[2]
    /\ path = <<>> /\ docSource = NoValue /\ schemaSource = NoValue
    /\ docFile = NoFile /\ schemaFile = NoFile
    /\ content = <<>> /\ propertyNames = <<>>
    /\ pc = "validate"
    /\ stack = <<Frame(docNode, schemaProperties)>>
    /\ ret = nil
    /\ result = nil
    /\ calls = <<>> /\ locals = <<>> /\ history = <<>>

NextValidate ==
    \/ CheckOrder
    \/ SkipProperty
    \/ Descend
    \/ PropagateError
    \/ NextProperty
    \/ ReturnNil

SpecValidate == InitValidate /\ [][NextValidate]_vars

(***************************************************************************)
(* Schema extraction on its own: extractNestedSchemaOrder and              *)
(* extractSchemaOrderFromJsonSchemaPath applied to a schema file           *)
(***************************************************************************)
\* keywords a schema carries beside "properties": a primitive value, and a
\* value that nests arrays and objects and spells "properties" as a string and
\* as a key
TypeKeyword == Member("type", Scalar(Str("string")))

EnumKeyword ==
    Member("enum", Array(<<Scalar(Str("properties")),
                           Object(<<Member("properties", Object(<<Member("z", Object(<<>>))>>))>>),
                           Array(<<Array(<<>>)>>)>>))

\* values of a "properties" member that are no objects
BadPropertiesValues ==
    {Scalar(Str("s")), Scalar(Num("1.5")), Scalar(Bool("true")), Scalar(Null),
     Array(<<Object(<<>>)>>)}

\* the keywords before and after a "properties" member
Surroundings == {<<<<>>, <<>>>>, <<<<TypeKeyword>>, <<EnumKeyword>>>>}

\* the member lists of a "properties" object that holds n properties over all
\* its levels, a "properties" member that is no object counted as one
RECURSIVE PropertiesMembers(_)
Fragments(m) ==
    IF m = 0
    THEN {Object(<<>>), Object(<<TypeKeyword>>), Object(<<Member("properties", Object(<<>>))>>)}
    ELSE {Object(sur[1] \o <<Member("properties", Object(ps))>> \o sur[2]) :
            sur \in Surroundings, ps \in PropertiesMembers(m)}
         \cup (IF m = 1 THEN {Object(<<Member("properties", bad)>>) : bad \in BadPropertiesValues}
               ELSE {})

PropertiesMembers(n) ==
    IF n = 0 THEN {<<>>}
    ELSE UNION {
        {<<Member(name, fragment)>> \o rest :
            name \in NestedNames, fragment \in Fragments(m), rest \in PropertiesMembers(n - 1 - m)} :
        m \in 0..(n - 1)}

\* schema fragments of a property that are no objects
BadFragments ==
    {Scalar(Bool("true")), Scalar(Null), Scalar(Str("s")), Scalar(Num("1.5")),
     Array(<<>>), Array(<<Object(<<>>)>>)}

\* the properties written before and after a property with such a fragment
Neighbours ==
    {<<>>, <<Member("a", Object(<<>>))>>,
     <<Member("b", Object(<<TypeKeyword, Member("properties", Object(<<Member("a", Object(<<>>))>>))>>))>>}

\* schemas with a property whose fragment is no object, at the top level of
\* the schema and inside the "properties" of a property
BadFragmentSources ==
    {Object(<<Member("properties", Object(before \o <<Member(name, bad)>> \o after))>>) :
        before \in Neighbours, after \in Neighbours, name \in NestedNames, bad \in BadFragments}
    \cup {Object(<<TypeKeyword,
                   Member("properties",
                          Object(before \o
                                 <<Member("c", Object(<<Member("properties",
                                                               Object(<<Member(name, bad)>>))>>))>>))>>) :
            before \in Neighbours, name \in NestedNames, bad \in BadFragments}

SchemaSources ==
    BadFragmentSources \cup
    {Object(sur[1] \o <<Member("properties", Object(ps))>> \o sur[2]) :
        sur \in Surroundings \cup {<<<<EnumKeyword>>, <<>>>>},
        ps \in UNION {PropertiesMembers(n) : n \in 0..MaxTextProps}}
    \cup {Object(<<Member("properties", bad)>>) : bad \in BadPropertiesValues}
    \cup {Object(ms) : ms \in {<<>>, <<TypeKeyword>>, <<EnumKeyword>>, <<EnumKeyword, TypeKeyword>>}}
    \cup {Array(<<>>)}

InitSchema ==
    /\ \/ /\ schemaSource \in SchemaSources
          /\ schemaFile = File(Text(schemaSource))
       \/ /\ schemaSource = NoValue
          /\ schemaFile = NoFile
    /\ path = <<>> /\ docSource = NoValue /\ docFile = NoFile
    /\ content = <<>> /\ yamlRoot = ZeroNode
    /\ schemaProperties = <<>> /\ propertyNames = <<>>
    /\ pc = "extract"
    /\ stack = <<>> /\ ret = nil /\ result = nil
    /\ calls = <<>> /\ locals = <<>> /\ history = <<>>

\* a call of extractNestedSchemaOrder
ExtractNested ==
    /\ pc = "extract"
    /\ LET got == extractNestedSchemaOrder(schemaFile) IN
        /\ schemaProperties' = got.properties
        /\ result' = got.err
    /\ pc' = "extracted"
    /\ UNCHANGED <<running, files, content, yamlRoot, propertyNames, stack, ret>>

\* a call of extractSchemaOrderFromJsonSchemaPath
ExtractNames ==
    /\ pc = "extract"
    /\ LET got == extractSchemaOrderFromJsonSchemaPath(schemaFile) IN
        /\ propertyNames' = got.names
        /\ result' = got.err
    /\ pc' = "named"
    /\ UNCHANGED <<running, files, content, yamlRoot, schemaProperties, stack, ret>>

NextSchema == ExtractNested \/ ExtractNames

SpecSchema == InitSchema /\ [][NextSchema]_vars

(***************************************************************************)
(* Schemas whose other keywords hold values of every shape                 *)
(***************************************************************************)
\* the values written with n values in all: objects and arrays in one
\* another, "properties" among the keys and as a string
RECURSIVE SkippedMembers(_)
RECURSIVE SkippedItems(_)
SkippedValues(n) ==
    IF n = 1 THEN {Scalar(Str("properties")), Object(<<>>), Array(<<>>)}
    ELSE {Object(ms) : ms \in SkippedMembers(n - 1)} \cup {Array(is) : is \in SkippedItems(n - 1)}

SkippedMembers(n) ==
    IF n = 0 THEN {<<>>}
    ELSE UNION {
        {<<Member(key, value)>> \o rest :
            key \in {"properties", "z"}, value \in SkippedValues(m), rest \in SkippedMembers(n - m)} :
        m \in 1..n}

SkippedItems(n) ==
    IF n = 0 THEN {<<>>}
    ELSE UNION {
        {<<value>> \o rest : value \in SkippedValues(m), rest \in SkippedItems(n - m)} :
        m \in 1..n}

\* a schema with the value under another keyword before the "properties" of the
\* top level and, in the fragment of property a, before and after its
\* "properties"; property c comes after a
SchemaAround(value) ==
    Object(<<Member("definitions", value),
             Member("properties",
                Object(<<Member("a", Object(<<Member("items", value),
                                              Member("properties", Object(<<Member("b", Object(<<>>))>>)),
                                              Member("definitions", value)>>)),
                         Member("c", Object(<<Member("items", value)>>))>>))>>)

SkipSchemaSources == {SchemaAround(value) : value \in UNION {SkippedValues(n) : n \in 1..MaxSkipped}}

InitSkip ==
    /\ schemaSource \in SkipSchemaSources
    /\ schemaFile = File(Text(schemaSource))
    /\ path = <<>> /\ docSource = NoValue /\ docFile = NoFile
    /\ content = <<>> /\ yamlRoot = ZeroNode
    /\ schemaProperties = <<>> /\ propertyNames = <<>>
    /\ pc = "extract"
    /\ stack = <<>> /\ ret = nil /\ result = nil
    /\ calls = <<>> /\ locals = <<>> /\ history = <<>>

SpecSkip == InitSkip /\ [][NextSchema]_vars

(***************************************************************************)
(* The JSON document parser on its own: parseJSONWithOrder applied to the  *)
(* text of a document                                                      *)
(***************************************************************************)
ScalarTokens == {Str("a"), Bool("true"), Null} \cup {Num(literal) : literal \in NumberLiterals}

\* the values written with n values in all, the scalars among them strings
RECURSIVE JSONMembers(_)
RECURSIVE JSONItems(_)
JSONValues(n) ==
    IF n = 1 THEN {Scalar(Str("a")), Object(<<>>), Array(<<>>)}
    ELSE {Object(ms) : ms \in JSONMembers(n - 1)} \cup {Array(is) : is \in JSONItems(n - 1)}

\* the member lists written with n values in all
JSONMembers(n) ==
    IF n = 0 THEN {<<>>}
    ELSE UNION {
        {<<Member(key, value)>> \o rest :
            key \in NestedNames, value \in JSONValues(m), rest \in JSONMembers(n - m)} :
        m \in 1..n}

\* the item lists written with n values in all
JSONItems(n) ==
    IF n = 0 THEN {<<>>}
    ELSE UNION {
        {<<value>> \o rest : value \in JSONValues(m), rest \in JSONItems(n - m)} :
        m \in 1..n}

\* documents whose root is an object: up to MaxJSONValues values below the
\* root, and every kind of scalar as a member of the root, as a member of an
\* object inside an array and as an element
ObjectSources ==
    {Object(ms) : ms \in UNION {JSONMembers(n) : n \in 0..MaxJSONValues}}
    \cup {Object(<<Member("b", Scalar(tok)),
                    Member("a", Array(<<Object(<<Member("b", Scalar(tok)),
                                                 Member("a", Scalar(tok))>>),
                                        Scalar(tok)>>))>>) :
            tok \in ScalarTokens}

\* documents whose root is no object
OtherSources ==
    {Scalar(tok) : tok \in ScalarTokens}
    \cup {Array(<<>>), Array(<<Object(<<Member("b", Scalar(Null)), Member("a", Scalar(Null))>>)>>)}

InitJSON ==
    /\ \/ /\ docSource \in ObjectSources \cup OtherSources
          /\ docFile = File(Text(docSource))
       \/ /\ docSource = NoValue
          /\ docFile = File(<<>>)
    /\ path = <<"document", ".json">>
    /\ content = docFile.data
    /\ schemaSource = NoValue /\ schemaFile = NoFile
    /\ yamlRoot = ZeroNode
    /\ schemaProperties = <<>> /\ propertyNames = <<>>
    /\ pc = "parse"
    /\ stack = <<>> /\ ret = nil /\ result = nil
    /\ calls = <<>> /\ locals = <<>> /\ history = <<>>

\* a call of parseJSONWithOrder
ParseWithOrder ==
    /\ pc = "parse"
    /\ LET got == parseJSONWithOrder(content) IN
        /\ yamlRoot' = got.node
        /\ result' = got.err
    /\ pc' = "parsed"
    /\ UNCHANGED <<running, files, content, schemaProperties, propertyNames, stack, ret>>

NextJSON == ParseWithOrder

SpecJSON == InitJSON /\ [][NextJSON]_vars

(***************************************************************************)
(* Lint as a whole: a document file and a schema file                      *)
(***************************************************************************)
LintPaths ==
    {<<"document", ".yaml">>, <<"document", ".yml">>, <<"document", ".json">>,
     <<"document", ".txt">>, <<"document">>, <<"document", ".json", ".bak">>}

\* an object with its keys in the given order, every value a string
Ordered(keys) == Object([n \in DOMAIN keys |-> Member(keys[n], Scalar(Str("v")))])

LintDocSources ==
    {Scalar(tok) : tok \in ScalarTokens}
    \cup {Array(<<>>), Array(<<Scalar(Str("v"))>>), Array(<<Ordered(<<"b", "a">>)>>)}
    \cup {Ordered(keys) : keys \in {<<>>, <<"a", "b">>, <<"b", "a">>, <<"x", "a">>}}
    \cup {Object(<<Member("a", Ordered(<<"b", "a">>))>>),
          Object(<<Member("a", Ordered(<<"a", "b">>)), Member("b", Scalar(Num("1.0")))>>),
          Object(<<Member("a", Array(<<Ordered(<<"b", "a">>)>>)), Member("b", Ordered(<<"b", "a">>))>>)}

\* texts that are no document: nothing at all, and an object left open
EmptyText == <<>>
MalformedTexts == {<<Delim("{")>>, <<Delim("{"), Str("a")>>}

\* texts whose root closes before the text ends
TrailingTexts ==
    {Text(Ordered(<<"a", "b">>)) \o <<Delim("}")>>,
     Text(Ordered(<<"b", "a">>)) \o <<Str("x")>>,
     Text(Ordered(<<"a", "b">>)) \o Text(Ordered(<<"b", "a">>))}

\* the "properties" object of a schema in the order a, b, the children of a in
\* the same order
NestedProperties ==
    Object(<<Member("a", Object(<<TypeKeyword,
                                  Member("properties", Object(<<Member("a", Object(<<>>)),
                                                                Member("b", Object(<<>>))>>))>>)),
             Member("b", Object(<<TypeKeyword>>))>>)

\* a keyword whose value holds a "properties" member further down
DefinitionsKeyword == Member("definitions", Object(<<Member("properties", NestedProperties)>>))

ValidSchemaSources ==
    {Object(<<Member("properties", Object(<<>>))>>),
     Object(<<TypeKeyword, Member("properties", NestedProperties)>>),
     Object(<<DefinitionsKeyword, Member("properties", NestedProperties), EnumKeyword>>)}

NoPropertiesSources ==
    {Object(ms) : ms \in {<<>>, <<TypeKeyword>>, <<EnumKeyword, TypeKeyword>>, <<DefinitionsKeyword>>}}

LintSchemaSources ==
    ValidSchemaSources \cup NoPropertiesSources
    \cup {Object(<<Member("properties", Scalar(Str("s")))>>),
          Object(<<Member("properties",
                          Object(<<Member("a", Object(<<Member("properties", Scalar(Null))>>))>>))>>),
          Array(<<>>)}

InitLint ==
    /\ path \in LintPaths
    /\ \/ /\ docSource \in LintDocSources
          /\ docFile = File(Text(docSource))
       \/ /\ docSource = NoValue
          /\ docFile \in {NoFile, File(EmptyText)}
                        \cup {File(text) : text \in MalformedTexts \cup TrailingTexts}
    /\ \/ /\ schemaSource \in LintSchemaSources
          /\ schemaFile = File(Text(schemaSource))
       \/ /\ schemaSource = NoValue
          /\ schemaFile = NoFile
    /\ content = <<>> /\ yamlRoot = ZeroNode
    /\ schemaProperties = <<>> /\ propertyNames = <<>>
    /\ pc = "read"
    /\ stack = <<>> /\ ret = nil /\ result = nil
    /\ calls = <<>> /\ locals = <<>> /\ history = <<>>

NextLint ==
    \/ ReadFile
    \/ DecodeYAML
    \/ DecodeJSON
    \/ UnsupportedExtension
    \/ ExtractSchema
    \/ StartValidation
    \/ NothingToValidate
    \/ CheckOrder
    \/ SkipProperty
    \/ Descend
    \/ PropagateError
    \/ NextProperty
    \/ ReturnNil

SpecLint == InitLint /\ [][NextLint]_vars

(***************************************************************************)
(* Calls of Lint one after another, and calls of Lint at the same time     *)
(***************************************************************************)
ValidSchemaFile == File(Text(Object(<<TypeKeyword, Member("properties", NestedProperties)>>)))

CallArguments ==
    {Arguments(<<"first", ".yaml">>, File(Text(Ordered(<<"b", "a">>))), ValidSchemaFile),
     Arguments(<<"empty", ".yaml">>, File(EmptyText), ValidSchemaFile),
     Arguments(<<"nested", ".json">>,
               File(Text(Object(<<Member("a", Ordered(<<"b", "a">>))>>))), ValidSchemaFile),
     Arguments(<<"second", ".yml">>, File(Text(Ordered(<<"a", "b">>))), File(Text(Object(<<>>)))),
     Arguments(<<"third", ".txt">>, File(Text(Ordered(<<"a", "b">>))), ValidSchemaFile),
     Arguments(<<"missing", ".json">>, NoFile, ValidSchemaFile)}

\* n callers, each to call Lint so many times
InitCalls(n, times) ==
    /\ calls = [c \in 1..n |-> Call(Arguments(<<>>, NoFile, NoFile), "idle", nil, times)]
    /\ locals = [c \in 1..n |-> Locals(<<>>, ZeroNode, <<>>)]
    /\ history = <<>>
    /\ path = <<>> /\ docSource = NoValue /\ schemaSource = NoValue
    /\ docFile = NoFile /\ schemaFile = NoFile
    /\ content = <<>> /\ yamlRoot = ZeroNode
    /\ schemaProperties = <<>> /\ propertyNames = <<>>
    /\ pc = "calls"
    /\ stack = <<>> /\ ret = nil /\ result = nil

NextCalls ==
    \E c \in DOMAIN calls :
        \/ \E args \in CallArguments : Begin(c, args)
        \/ CallRead(c)
        \/ CallDecode(c)
        \/ CallExtract(c)
        \/ CallValidate(c)

\* one caller that calls Lint again and again
InitRepeat == InitCalls(1, MaxRuns)

SpecRepeat == InitRepeat /\ [][NextCalls]_vars

\* callers that each call Lint once, at the same time
InitConcurrent == InitCalls(MaxCalls, 1)

SpecConcurrent == InitConcurrent /\ [][NextCalls]_vars

(***************************************************************************)
(* Properties of the validator                                             *)
(***************************************************************************)
DistinctNames(props) ==
    \A m, n \in 1..Len(props) : props[m].Name = props[n].Name => m = n

InSchema(props, key) == \E n \in 1..Len(props) : props[n].Name = key

\* the position at which a level with distinct names declares key
SchemaIndex(props, key) == CHOOSE n \in 1..Len(props) : props[n].Name = key

\* positions i < j of the key list hold schema keys in the opposite of schema order
Inversion(keys, props, i, j) ==
    /\ i < j
    /\ InSchema(props, keys[i]) /\ InSchema(props, keys[j])
    /\ SchemaIndex(props, keys[i]) > SchemaIndex(props, keys[j])

HasInversion(keys, props) ==
    \E i, j \in 1..Len(keys) : Inversion(keys, props, i, j)

\* a level's pairwise check is about to run
Checking == pc = "validate" /\ stack # <<>> /\ Top.at = "check"

\* in a step of a level's check: the error the check returned, nil if none
Reported ==
    IF Len(stack') < Len(stack) THEN (IF Len(stack) = 1 THEN result' ELSE ret') ELSE nil

\* in a step of a level's check: the level passed and its keys are visited next
Passed == Len(stack') = Len(stack) /\ stack'[Len(stack')].at = "loop"

\* C1: at a level whose schema names are distinct, the pairwise check reports
\* a violation iff some pair of positions i < j holds two schema keys with the
\* schema index of keys[i] greater than that of keys[j]; otherwise it passes.
C1_ViolationIffInversion ==
    [][(Checking /\ DistinctNames(Top.schemaProperties)) =>
        LET inverted == HasInversion(keysOf(Top.node), Top.schemaProperties) IN
        /\ (Reported # nil) <=> inverted
        /\ Passed <=> ~inverted]_vars

C1_Witness ==
    /\ pc = "done" /\ result # nil
    /\ DistinctNames(schemaProperties) /\ Len(schemaProperties) = 3
    /\ Len(keysOf(docNode)) = 3
    /\ HasInversion(keysOf(docNode), schemaProperties)
    /\ \E k \in 1..3 : ~InSchema(schemaProperties, keysOf(docNode)[k])

\* the first inverted pair in the scan order: the least i that has a later
\* conflicting j and, for it, the least such j
FirstI(keys, props) ==
    CHOOSE i \in 1..Len(keys) :
        /\ \E j \in 1..Len(keys) : Inversion(keys, props, i, j)
        /\ \A h \in 1..(i - 1) : \A j \in 1..Len(keys) : ~Inversion(keys, props, h, j)

FirstJ(keys, props) ==
    CHOOSE j \in 1..Len(keys) :
        /\ Inversion(keys, props, FirstI(keys, props), j)
        /\ \A h \in 1..(j - 1) : ~Inversion(keys, props, FirstI(keys, props), h)

\* C2: when a level (schema names distinct) holds an inverted pair, the error
\* names the first pair of the scan, i ascending and then j ascending, and says
\* that keys[i], the earlier key of the document, should come after keys[j].
C2_FirstPairReported ==
    [][(/\ Checking
        /\ DistinctNames(Top.schemaProperties)
        /\ HasInversion(keysOf(Top.node), Top.schemaProperties)) =>
        LET keys == keysOf(Top.node)
            props == Top.schemaProperties IN
        Reported = <<"properties out of order: '", keys[FirstI(keys, props)],
                     "' should come after '", keys[FirstJ(keys, props)],
                     "' according to the schema">>]_vars

\* the number of inverted pairs of the level
Inversions(keys, props) ==
    {ij \in (1..Len(keys)) \X (1..Len(keys)) : Inversion(keys, props, ij[1], ij[2])}

\* the level c, b, a against a, b, c: three inverted pairs, the first is (c, b)
C2_Witness ==
    /\ pc = "done"
    /\ DistinctNames(schemaProperties)
    /\ Cardinality(Inversions(keysOf(docNode), schemaProperties)) = 3
    /\ result = <<"properties out of order: '", "c", "' should come after '", "b",
                  "' according to the schema">>

\* the key list without the keys at the positions of drop
Without(keys, drop) ==
    LET kept == (1..Len(keys)) \ drop IN
    [n \in 1..Cardinality(kept) |->
        keys[CHOOSE p \in kept : Cardinality({q \in kept : q < p}) = n - 1]]

\* the outcome of the pairwise check of a key list: <<>> for a pass, else the
\* two keys reported
LevelOutcome(keys, props) ==
    LET v == firstViolation(keys, props) IN
    IF v = <<>> THEN <<>> ELSE <<keys[v[1] + 1], keys[v[2] + 1]>>

\* in a step of a level's check: the same outcome, read off the returned error
StepOutcome == IF Reported = nil THEN <<>> ELSE <<Reported[2], Reported[4]>>

UnknownPositions(keys, props) == {p \in 1..Len(keys) : ~InSchema(props, keys[p])}

\* C3: keys that are no names of the schema level never affect the outcome of
\* the level: the check of a mapping gives the outcome (pass, or the pair of
\* keys reported) of the same mapping with any set of such keys removed, and a
\* mapping of unknown keys only passes.
C3_UnknownKeysIgnored ==
    [][Checking =>
        LET keys == keysOf(Top.node)
            props == Top.schemaProperties
            unknown == UnknownPositions(keys, props) IN
        /\ \A drop \in SUBSET unknown :
                LevelOutcome(Without(keys, drop), props) = StepOutcome
        /\ unknown = 1..Len(keys) => Passed]_vars

\* b, x, a against a, b: the unknown key x stands between the inverted keys
C3_Witness ==
    /\ pc = "done"
    /\ Len(keysOf(docNode)) = 3
    /\ UnknownPositions(keysOf(docNode), schemaProperties) = {2}
    /\ DistinctNames(schemaProperties)
    /\ Inversion(keysOf(docNode), schemaProperties, 1, 3)
    /\ result = <<"properties out of order: '", keysOf(docNode)[1], "' should come after '",
                  keysOf(docNode)[3], "' according to the schema">>

\* a key of a passed level is about to be visited
Visiting ==
    /\ pc = "validate" /\ stack # <<>>
    /\ Top.at = "loop" /\ Top.i <= Len(Top.node.Content)

\* the schema node of a key: the first property of the level with that name
SchemaNode(props, key) ==
    props[CHOOSE n \in 1..Len(props) :
            props[n].Name = key /\ \A m \in 1..(n - 1) : props[m].Name # key]

\* conditions (a), (b) and (c) of the recursion
Recurses(props, key, value) ==
    /\ InSchema(props, key)
    /\ Len(SchemaNode(props, key).Properties) >= 1
    /\ value.Kind = "MappingNode"

\* C4: keys are visited only at a level whose pairwise check passed, and the
\* visit of a key k recurses exactly when k is a name of the schema level, its
\* schema node has children and its value is a mapping; the nested mapping is
\* then validated against those children. Any other key (a scalar or sequence
\* value, a leaf property, an unknown key) is passed over without an error.
C4_RecursesExactlyWhen ==
    [][Visiting =>
        LET key == Top.node.Content[Top.i].Value
            value == Top.node.Content[Top.i + 1]
            props == Top.schemaProperties IN
        /\ DistinctNames(props) => ~HasInversion(keysOf(Top.node), props)
        /\ IF Recurses(props, key, value)
           THEN /\ Len(stack') = Len(stack) + 1
                /\ stack'[Len(stack')].node = value
                /\ stack'[Len(stack')].schemaProperties = SchemaNode(props, key).Properties
                /\ stack'[Len(stack')].at = "check"
                /\ SubSeq(stack', 1, Len(stack) - 1) = SubSeq(stack, 1, Len(stack) - 1)
                /\ stack'[Len(stack)].node = Top.node /\ stack'[Len(stack)].i = Top.i
           ELSE /\ stack' = [stack EXCEPT ![Len(stack)].i = Top.i + 2]
                /\ UNCHANGED <<pc, ret, result>>]_vars

\* a: [mappings out of order], b: {b, a} against a and b with children a, b:
\* the sequence under a was passed over, the mapping under b is being validated
C4_Witness ==
    /\ pc = "validate" /\ Len(stack) = 2
    /\ stack[1].i = 3
    /\ stack[1].node.Content[2] = BadSequence
    /\ Len(SchemaNode(stack[1].schemaProperties, stack[1].node.Content[1].Value).Properties) >= 1
    /\ Top.node = BadMapping
    /\ Top.at = "check"

\* the messages a violation below a mapping may carry: the message of an
\* inverted pair of the mapping itself, or the message of a violation in the
\* mapping under one of its schema keys, behind the prefix of that key
RECURSIVE ViolationMessages(_, _)
ViolationMessages(n, props) ==
    LET keys == keysOf(n)
        own == {<<"properties out of order: '", keys[ij[1]], "' should come after '",
                  keys[ij[2]], "' according to the schema">> :
                    ij \in {p \in (1..Len(keys)) \X (1..Len(keys)) :
                        /\ p[1] < p[2]
                        /\ \E q, r \in 1..Len(props) :
                            /\ props[q].Name = keys[p[1]]
                            /\ props[r].Name = keys[p[2]]
                            /\ q > r}}
        below == {eq \in (1..Len(keys)) \X (1..Len(props)) :
                    /\ props[eq[2]].Name = keys[eq[1]]
                    /\ n.Content[2 * eq[1]].Kind = "MappingNode"} IN
    own \cup UNION {
        {<<"in property '", keys[eq[1]], "': ">> \o m :
            m \in ViolationMessages(n.Content[2 * eq[1]], props[eq[2]].Properties)} :
        eq \in below}

\* C5: a violation is returned as the message of the offending level behind
\* one prefix per enclosing key, the outermost key first; a violation of the
\* root level carries no prefix.
C5_PrefixesOuterToInner ==
    (pc = "done" /\ result # nil) =>
        /\ result \in ViolationMessages(docNode, schemaProperties)
        /\ (DistinctNames(schemaProperties) /\ HasInversion(keysOf(docNode), schemaProperties))
            => result[1] = "properties out of order: '"

\* a violation two levels down, under two different keys
C5_Witness ==
    /\ pc = "done" /\ Len(result) = 11
    /\ result[1] = "in property '" /\ result[4] = "in property '"
    /\ result[2] # result[5]
    /\ result[7] = "properties out of order: '"

(***************************************************************************)
(* Properties of the schema extraction                                     *)
(***************************************************************************)
HasMember(object, key) == \E n \in 1..Len(object.items) : object.items[n].key = key

\* the value of the first member of the object with the key
MemberValue(object, key) ==
    object.items[CHOOSE n \in 1..Len(object.items) :
        object.items[n].key = key /\ \A m \in 1..(n - 1) : object.items[m].key # key].value

\* a "properties" object as it should be: every member an object, and every
\* "properties" member directly inside one of them such an object again
RECURSIVE WellFormedProperties(_)
WellFormedProperties(value) ==
    /\ value.type = "object"
    /\ \A n \in 1..Len(value.items) :
        LET fragment == value.items[n].value IN
        /\ fragment.type = "object"
        /\ Cardinality({m \in 1..Len(fragment.items) : fragment.items[m].key = "properties"}) <= 1
        /\ HasMember(fragment, "properties")
            => WellFormedProperties(MemberValue(fragment, "properties"))

WellFormedSchema(source) ==
    /\ source.type = "object"
    /\ Cardinality({m \in 1..Len(source.items) : source.items[m].key = "properties"}) = 1
    /\ WellFormedProperties(MemberValue(source, "properties"))

\* the tree a "properties" object declares: its member keys in the order in
\* which they are written, each with the tree of the "properties" object found
\* directly inside its own fragment, or without children if there is none
RECURSIVE DeclaredTree(_)
DeclaredTree(properties) ==
    [n \in 1..Len(properties.items) |->
        [Name |-> properties.items[n].key,
         Properties |->
            IF HasMember(properties.items[n].value, "properties")
            THEN DeclaredTree(MemberValue(properties.items[n].value, "properties"))
            ELSE <<>>]]

\* C6: the tree extracted from a well-formed schema lists, at every depth, the
\* member keys of the "properties" object in the order of the schema text; the
\* children of a property are the members of the "properties" object directly
\* inside its fragment, and a property without one is a leaf, not an error.
C6_TreeMirrorsSchemaText ==
    (pc = "extracted" /\ WellFormedSchema(schemaSource)) =>
        /\ result = nil
        /\ schemaProperties = DeclaredTree(MemberValue(schemaSource, "properties"))

\* three levels, the nested level in the order b, a beside a leaf
C6_Witness ==
    /\ pc = "extracted" /\ WellFormedSchema(schemaSource)
    /\ \E n \in 1..Len(schemaProperties) :
        /\ Len(schemaProperties[n].Properties) = 2
        /\ schemaProperties[n].Properties[1].Name = "b"
        /\ schemaProperties[n].Properties[2].Name = "a"
        /\ schemaProperties[n].Properties[1].Properties = <<>>
    /\ Len(schemaSource.items) = 3

\* a "properties" member that is no object: of the object itself, or of the
\* fragment of a property of its "properties" object, at any depth
RECURSIVE HasBadProperties(_)
HasBadProperties(object) ==
    /\ HasMember(object, "properties")
    /\ LET properties == MemberValue(object, "properties") IN
        \/ properties.type # "object"
        \/ \E n \in 1..Len(properties.items) :
            /\ properties.items[n].value.type = "object"
            /\ HasBadProperties(properties.items[n].value)

\* C8: a "properties" member, of the schema or of a property's fragment at any
\* depth, whose value is no object makes the extraction fail and return no
\* tree: neither one with empty children nor the properties read so far.
C8_BadPropertiesFails ==
    (pc = "extracted" /\ schemaSource.type = "object" /\ HasBadProperties(schemaSource)) =>
        /\ result # nil
        /\ schemaProperties = <<>>

\* the malformed member belongs to the second property, the first was read in
\* full
C8_Witness ==
    /\ pc = "extracted" /\ result = <<"expected properties object">>
    /\ schemaProperties = <<>>
    /\ schemaSource.type = "object" /\ HasMember(schemaSource, "properties")
    /\ LET top == MemberValue(schemaSource, "properties") IN
        /\ top.type = "object" /\ Len(top.items) = 2
        /\ ~HasBadProperties(top.items[1].value)
        /\ HasMember(top.items[2].value, "properties")
        /\ MemberValue(top.items[2].value, "properties").type = "array"

(***************************************************************************)
(* Properties of the document parser                                       *)
(***************************************************************************)
Shape(kind, key, items) == [kind |-> kind, key |-> key, items |-> items]

\* what a document spells out, leaving the scalars aside: the keys of every
\* object and the elements of every array, in the order of the text
RECURSIVE SourceShape(_)
SourceShape(value) ==
    CASE value.type = "object" ->
            Shape("mapping", "", [n \in 1..Len(value.items) |->
                Shape("entry", value.items[n].key, <<SourceShape(value.items[n].value)>>)])
      [] value.type = "array" ->
            Shape("sequence", "", [n \in 1..Len(value.items) |-> SourceShape(value.items[n])])
      [] OTHER -> Shape("scalar", "", <<>>)

\* the same of a parsed tree
RECURSIVE NodeShape(_)
NodeShape(n) ==
    CASE n.Kind = "MappingNode" ->
            Shape("mapping", "", [k \in 1..(Len(n.Content) \div 2) |->
                Shape("entry", n.Content[2 * k - 1].Value, <<NodeShape(n.Content[2 * k])>>)])
      [] n.Kind = "SequenceNode" ->
            Shape("sequence", "", [k \in 1..Len(n.Content) |-> NodeShape(n.Content[k])])
      [] OTHER -> Shape("scalar", "", <<>>)

\* C9: the tree parsed from a well-formed JSON document whose root is an object
\* has, for every object of the text, a mapping whose keys are the keys of the
\* object in the order of the text, and for every array a sequence of its
\* elements in order, at every depth and on every path.
C9_KeyOrderPreserved ==
    (pc = "parsed" /\ docSource.type = "object") =>
        /\ result = nil
        /\ yamlRoot.Kind = "DocumentNode" /\ Len(yamlRoot.Content) = 1
        /\ Len(docNode.Content) = 2 * Len(docSource.items)
        /\ NodeShape(docNode) = SourceShape(docSource)

\* an object of two keys inside an array, behind another member of the root
C9_Witness ==
    /\ pc = "parsed" /\ result = nil
    /\ Len(docSource.items) = 2
    /\ docSource.items[2].value.type = "array"
    /\ Len(docSource.items[2].value.items) = 2
    /\ docSource.items[2].value.items[1].type = "object"
    /\ Len(docSource.items[2].value.items[1].items) = 2
    /\ docSource.items[2].value.items[1].items[1].key = "b"
    /\ docSource.items[2].value.items[1].items[2].key = "a"
    /\ keysOf(docNode.Content[4].Content[1]) = <<"b", "a">>

(***************************************************************************)
(* Properties of Lint                                                      *)
(***************************************************************************)
\* the schema is an object without a "properties" member of its own
NoTopLevelProperties == schemaSource.type = "object" /\ ~HasMember(schemaSource, "properties")

EmptyDocument == docFile.exists /\ docFile.data = EmptyText

RootIsNoObject == docSource.type \in {"scalar", "array"}

\* C7: with a schema whose top-level object has no "properties" member the
\* extraction of the schema fails with "properties not found" and yields no
\* property list, so that Lint never reaches the validation and never returns
\* nil, whatever the document is.
C7_NoPropertiesNeverSucceeds ==
    [][NoTopLevelProperties =>
        /\ ExtractSchema =>
            /\ result' = <<"properties not found">>
            /\ schemaProperties' = <<>>
            /\ pc' = "done"
        /\ pc' \notin {"root", "validate"}
        /\ pc' = "done" => result' # nil]_vars

\* an empty YAML document, which alone would pass, against such a schema
C7_Witness ==
    /\ NoTopLevelProperties /\ HasMember(schemaSource, "definitions")
    /\ EmptyDocument /\ HasSuffix(path, ".yaml")
    /\ pc = "done"
    /\ yamlRoot = ZeroNode /\ schemaProperties = <<>>
    /\ result = <<"properties not found">>

SupportedFormat == HasSuffix(path, ".yaml") \/ HasSuffix(path, ".yml") \/ HasSuffix(path, ".json")

ValidSchema == schemaSource \in ValidSchemaSources

\* C10: a document in YAML or JSON that is empty or whose root is a scalar or
\* an array is decoded without error and, against a valid schema, Lint returns
\* nil.
C10_EmptyOrNonObjectAccepted ==
    (pc = "done" /\ SupportedFormat /\ (EmptyDocument \/ RootIsNoObject) /\ ValidSchema) =>
        result = nil

\* the file holds a text that is no JSON or YAML value and not empty either
MalformedDocument == docFile.exists /\ docFile.data \in MalformedTexts \cup TrailingTexts

\* the errors of decoding a document
ParseErrors ==
    {<<"EOF">>, <<"invalid character">>, <<"expected JSON object">>,
     <<"expected string key in JSON object">>,
     <<"yaml: did not find expected ',' or '}'">>, <<"yaml: did not find expected ',' or ']'">>,
     <<"yaml: did not find expected node content">>,
     <<"yaml: did not find expected <document start>">>}

\* C11: Lint on a document in JSON or YAML whose text is malformed, tokens
\* after the end of the root value included, returns a parse error, never nil
\* and never an order violation.
C11_MalformedIsParseError ==
    (pc = "done" /\ SupportedFormat /\ MalformedDocument) => result \in ParseErrors

\* the scalar a JSON token stands for after the JSON decoding: a number in its
\* shortest form
JSONScalar(tok) ==
    IF tok.t = "number" THEN (IF tok.v = "1.0" THEN "1" ELSE tok.v) ELSE tok.v

\* the tree of a value: mappings of its objects, sequences of its arrays,
\* the scalars as the YAML decoding (the text as written) or the JSON decoding
\* leaves them
RECURSIVE TreeOf(_, _)
TreeOf(value, format) ==
    CASE value.type = "object" ->
            MappingNode(Flatten([n \in 1..Len(value.items) |->
                <<ScalarNode(value.items[n].key), TreeOf(value.items[n].value, format)>>]))
      [] value.type = "array" ->
            SequenceNode([n \in 1..Len(value.items) |-> TreeOf(value.items[n], format)])
      [] OTHER -> ScalarNode(IF format = "json" THEN JSONScalar(value.tok) ELSE value.tok.v)

YAMLPath == path[Len(path)] \in {".yaml", ".yml"}
JSONPath == path[Len(path)] = ".json"

\* C12: once the file is read the extension of the path alone decides what
\* happens: with .yaml or .yml the document is decoded as YAML (scalars as
\* written), with .json by the order-preserving JSON parser (numbers
\* reformatted, only an object as root), and with any other extension Lint
\* returns the unsupported-extension error whatever the content and the schema
\* are, with no tree decoded, no schema extracted and no validation started.
C12_DispatchByExtension ==
    [][pc = "decode" =>
        IF YAMLPath
        THEN docSource # NoValue =>
                pc' = "schema" /\ yamlRoot' = DocumentNode(<<TreeOf(docSource, "yaml")>>)
        ELSE IF JSONPath
        THEN /\ docSource.type = "object" =>
                    pc' = "schema" /\ yamlRoot' = DocumentNode(<<TreeOf(docSource, "json")>>)
             /\ docSource.type \in {"scalar", "array"} =>
                    pc' = "done" /\ result' = <<"expected JSON object">>
        ELSE /\ pc' = "done"
             /\ result' = <<"file must have .yaml, .yml, or .json extension">>
             /\ yamlRoot' = ZeroNode /\ schemaProperties' = <<>> /\ stack' = <<>>]_vars

\* a JSON document behind a path that ends in another extension, with a schema
\* that could not be extracted
C12_Witness ==
    /\ path = <<"document", ".json", ".bak">>
    /\ docSource = Ordered(<<"b", "a">>)
    /\ schemaSource = Array(<<>>)
    /\ pc = "done"
    /\ result = <<"file must have .yaml, .yml, or .json extension">>

(***************************************************************************)
(* Properties of several calls                                             *)
(***************************************************************************)
\* C13: the calls of Lint with the same path and the same contents of the two
\* files all return the same, nil or the same message, whatever calls came
\* before them.
C13_SameOutcomeEveryTime ==
    \A m, n \in 1..Len(history) :
        history[m].args = history[n].args => history[m].result = history[n].result

\* the empty YAML document linted, with success, before and after a document
\* that is out of order
C13_Witness ==
    /\ Len(history) = 3
    /\ history[1].args.path = <<"empty", ".yaml">> /\ history[1].result = nil
    /\ history[2].args.path = <<"first", ".yaml">> /\ history[2].result # nil
    /\ history[3].args.path = <<"empty", ".yaml">> /\ history[3].result = nil

\* C14: under every interleaving of the stages of the calls, each call returns
\* what Lint returns for its arguments on its own, and the local variables of
\* a call change only with a step of that call.
C14_ConcurrentCallsIndependent ==
    /\ [](\A c \in DOMAIN calls :
            calls[c].pc = "done" =>
                calls[c].result =
                    Lint(calls[c].args.path, calls[c].args.docFile, calls[c].args.schemaFile))
    /\ [][\A c \in DOMAIN calls : calls'[c] = calls[c] => locals'[c] = locals[c]]_vars

\* the second call read, decoded and extracted while the first was between its
\* stages, and both returned what they return alone
C14_Witness ==
    /\ Len(history) = 2
    /\ calls[1].args.path = <<"first", ".yaml">> /\ calls[1].pc = "done" /\ calls[1].result # nil
    /\ calls[2].args.path = <<"empty", ".yaml">> /\ calls[2].pc = "done" /\ calls[2].result = nil
    /\ history[1].args = calls[2].args
    /\ locals[1].yamlRoot.Kind = "DocumentNode" /\ locals[2].yamlRoot = ZeroNode

(***************************************************************************)
(* The pairwise scan as a decider                                          *)
(***************************************************************************)
\* the index the lookup table holds for a name of the level: the last
\* property of that name
LookupIndex(props, key) ==
    CHOOSE n \in 1..Len(props) :
        props[n].Name = key /\ \A m \in (n + 1)..Len(props) : props[m].Name # key

\* the schema indexes of the keys that are names of the level, in the order of
\* the keys
RECURSIVE FilteredIndexes(_, _)
FilteredIndexes(keys, props) ==
    IF keys = <<>> THEN <<>>
    ELSE (IF InSchema(props, Head(keys)) THEN <<LookupIndex(props, Head(keys))>> ELSE <<>>)
         \o FilteredIndexes(Tail(keys), props)

NonDecreasing(indexes) == \A n \in 1..(Len(indexes) - 1) : indexes[n] <= indexes[n + 1]

\* C15: the pairwise scan of a mapping against a schema level passes iff the
\* schema indexes of the mapping's schema-known keys, taken in document order,
\* never step down from one to the next; it reports a violation iff they do.
C15_ScanIffNonDecreasing ==
    [][(Checking /\ Top.node.Kind = "MappingNode") =>
        LET sorted == NonDecreasing(FilteredIndexes(keysOf(Top.node), Top.schemaProperties)) IN
        /\ Passed <=> sorted
        /\ (Reported # nil) <=> ~sorted]_vars

\* c, a, b against a, b, c: the indexes 3, 1, 2 step down once
C15_Witness ==
    /\ pc = "done"
    /\ FilteredIndexes(keysOf(docNode), schemaProperties) = <<3, 1, 2>>
    /\ result = <<"properties out of order: '", "c", "' should come after '", "a",
                  "' according to the schema">>

(***************************************************************************)
(* Properties of the skipping of other keywords                            *)
(***************************************************************************)
\* the value under the other keywords of the schema
SkippedValue == schemaSource.items[1].value

\* C16: whatever the shape of the value of another keyword, a primitive or
\* objects and arrays in one another, the scan passes over it as one value and
\* goes on with the next key of the same object: the "properties" after it are
\* found, at the top level and inside a fragment, the property after the
\* fragment is read, and no key "properties" and no string "properties" inside
\* the value adds a node.
C16_OtherValuesSkippedWhole ==
    /\ pc = "extracted" =>
        /\ result = nil
        /\ schemaProperties = <<SchemaProperty("a", <<SchemaProperty("b", <<>>)>>),
                                SchemaProperty("c", <<>>)>>
    /\ pc = "named" =>
        /\ result = nil
        /\ propertyNames = <<"a", "c">>

\* an array that holds an object whose "properties" is an array again
C16_Witness ==
    /\ SkippedValue = Array(<<Object(<<Member("properties", Array(<<Scalar(Str("properties"))>>))>>)>>)
    /\ pc = "extracted" /\ result = nil
    /\ Len(schemaProperties) = 2 /\ Len(schemaProperties[1].Properties) = 1

(***************************************************************************)
(* The two lookups of a schema level                                       *)
(***************************************************************************)
NamesOf(props) == [n \in 1..Len(props) |-> props[n].Name]

\* C17: for every key of a document mapping that is a name of the schema
\* level, the property whose index the ordering comparison uses is the
\* property whose children the recursion uses, also when the level declares a
\* name more than once; and a mapping whose keys are the names of the level,
\* in the same sequence, passes the level.
C17_OneNodePerName ==
    [][/\ (Checking /\ Top.node.Kind = "MappingNode") =>
            /\ \A k \in 1..Len(keysOf(Top.node)) :
                    InSchema(Top.schemaProperties, keysOf(Top.node)[k]) =>
                        Top.schemaProperties[
                            propertyPositions(Top.schemaProperties)[keysOf(Top.node)[k]] + 1]
                        = Top.schemaProperties[
                            findPropertyByName(Top.schemaProperties, keysOf(Top.node)[k])]
            /\ keysOf(Top.node) = NamesOf(Top.schemaProperties) => Passed]_vars

(***************************************************************************)
(* The stages of Lint                                                      *)
(***************************************************************************)
ReadFails == ~docFile.exists

\* the document is in no supported format or its text is malformed
ParseFails == docFile.exists /\ (~SupportedFormat \/ MalformedDocument)

SchemaFails == ~ValidSchema

SchemaErrors ==
    {<<"open: no such file or directory">>, <<"expected JSON object">>,
     <<"properties not found">>, <<"expected properties object">>}

OrderViolation(err) ==
    err # nil /\ Head(err) \in {"properties out of order: '", "in property '"}

\* C18: Lint returns the error of the first stage that fails, reading the
\* document, then decoding it by its extension, then extracting the schema,
\* then validating the order: no schema error when the document cannot be read
\* or parsed, no order violation when the schema is invalid, and the error of
\* the schema also when the root of the document is no mapping.
C18_EarliestStageFails ==
    pc = "done" =>
        IF ReadFails THEN result = <<"open: no such file or directory">>
        ELSE IF ParseFails
        THEN result \in ParseErrors \cup {<<"file must have .yaml, .yml, or .json extension">>}
        ELSE IF SchemaFails THEN result \in SchemaErrors
        ELSE result = nil \/ OrderViolation(result)

(***************************************************************************)
(* The one violation of a call                                             *)
(***************************************************************************)
\* the keys of the mapping are out of the order of the level
LevelInverted(n, props) == ~NonDecreasing(FilteredIndexes(keysOf(n), props))

\* the positions of the keys whose values the validation goes into
NestedPositions(n, props) ==
    {k \in 1..Len(keysOf(n)) : Recurses(props, keysOf(n)[k], n.Content[2 * k])}

\* there is a violation at the level or somewhere below it
RECURSIVE HasViolation(_, _)
HasViolation(n, props) ==
    /\ n.Kind = "MappingNode"
    /\ \/ LevelInverted(n, props)
       \/ \E k \in NestedPositions(n, props) :
            HasViolation(n.Content[2 * k], SchemaNode(props, keysOf(n)[k]).Properties)

\* the first key, in the order of the document, with a violation below it
FirstViolating(n, props) ==
    CHOOSE k \in NestedPositions(n, props) :
        /\ HasViolation(n.Content[2 * k], SchemaNode(props, keysOf(n)[k]).Properties)
        /\ \A h \in NestedPositions(n, props) :
                HasViolation(n.Content[2 * h], SchemaNode(props, keysOf(n)[h]).Properties) => k <= h

\* err reports one violation of a mapping that has some, the parent before
\* its children and the children in the order of the document: the message
\* of the level itself, or that of the first violating key behind its prefix
RECURSIVE ReportsFirst(_, _, _)
ReportsFirst(n, props, err) ==
    IF LevelInverted(n, props)
    THEN /\ Len(err) = 5
         /\ err[1] = "properties out of order: '"
         /\ \E i, j \in 1..Len(keysOf(n)) : i < j /\ err[2] = keysOf(n)[i] /\ err[4] = keysOf(n)[j]
    ELSE /\ Len(err) > 3
         /\ SubSeq(err, 1, 3) = <<"in property '", keysOf(n)[FirstViolating(n, props)], "': ">>
         /\ ReportsFirst(n.Content[2 * FirstViolating(n, props)],
                         SchemaNode(props, keysOf(n)[FirstViolating(n, props)]).Properties,
                         SubSeq(err, 4, Len(err)))

\* C19: a call returns nil when no level has a violation and else exactly one
\* violation: that of a mapping's own keys before any violation inside the
\* values of its keys, and among the values with violations that of the key
\* that comes first in the document; never several violations in one result.
C19_OneViolationParentFirst ==
    pc = "done" =>
        IF HasViolation(docNode, schemaProperties)
        THEN result # nil /\ ReportsFirst(docNode, schemaProperties, result)
        ELSE result = nil

\* both keys of the root hold a mapping out of order, and the root passes:
\* the violation under the first key is the one returned
C19_Witness ==
    /\ pc = "done"
    /\ ~LevelInverted(docNode, schemaProperties)
    /\ NestedPositions(docNode, schemaProperties) = {1, 2}
    /\ \A k \in {1, 2} :
            HasViolation(docNode.Content[2 * k], SchemaNode(schemaProperties, keysOf(docNode)[k]).Properties)
    /\ keysOf(docNode)[1] # keysOf(docNode)[2]
    /\ result = <<"in property '", keysOf(docNode)[1], "': ",
                  "properties out of order: '", "b", "' should come after '", "a",
                  "' according to the schema">>

(***************************************************************************)
(* Properties whose schema fragment is no object                           *)
(***************************************************************************)
\* the "properties" object has a member whose value is no object, or one whose
\* fragment holds a "properties" object with such a member, at any depth
RECURSIVE HasBadFragment(_)
HasBadFragment(properties) ==
    \E n \in 1..Len(properties.items) :
        LET fragment == properties.items[n].value IN
        \/ fragment.type # "object"
        \/ \E m \in 1..Len(fragment.items) :
            /\ fragment.items[m].key = "properties"
            /\ fragment.items[m].value.type = "object"
            /\ HasBadFragment(fragment.items[m].value)

\* the "properties" object of the schema is one and has such a member
SchemaHasBadFragment ==
    /\ schemaSource.type = "object"
    /\ HasMember(schemaSource, "properties")
    /\ MemberValue(schemaSource, "properties").type = "object"
    /\ HasBadFragment(MemberValue(schemaSource, "properties"))

\* C20: a member of a "properties" object, of the schema or of a property at
\* any depth, whose value is no JSON object (true, null, a string, a number,
\* an array) makes the extraction fail with an error and return neither a tree
\* nor names; the member is not recorded as a leaf. In a schema with no
\* "properties" member that is no object the error is "expected property
\* object".
C20_NonObjectFragmentFails ==
    (pc \in {"extracted", "named"} /\ SchemaHasBadFragment) =>
        /\ result # nil
        /\ schemaProperties = <<>> /\ propertyNames = <<>>
        /\ ~HasBadProperties(schemaSource) => result = <<"expected property object">>

\* the fragment of the second property is the boolean schema true, after a
\* property that was read in full with its own child
C20_Witness ==
    /\ pc = "extracted" /\ result = <<"expected property object">>
    /\ schemaProperties = <<>>
    /\ SchemaHasBadFragment
    /\ LET top == MemberValue(schemaSource, "properties") IN
        /\ Len(top.items) >= 2
        /\ top.items[1].value.type = "object"
        /\ HasMember(top.items[1].value, "properties")
        /\ top.items[2].value = Scalar(Bool("true"))

====
